---- MODULE Spec2Model ----
(***************************************************************************)
(* A model of the prediction core of the Decision platform:                *)
(*   backend/ml/engine.py            MLEngine (registry, dispatch, health) *)
(*   backend/ml/models/base.py       BaseModel (batch fan-out, save/load)  *)
(*   backend/ml/models/*.py          the four concrete variants            *)
(*   backend/ml/features/extractors.py  FeatureExtractor                   *)
(*                                                                         *)
(* A fitted sklearn estimator or scaler is represented by the identity of  *)
(* the data set it was fitted on (0 = never fitted); a prediction is a     *)
(* deterministic function of that identity and of the instance.            *)
(***************************************************************************)
EXTENDS Integers, Sequences, FiniteSets, TLC

(***************************************************************************)
(* Bounds of the model.                                                    *)
(***************************************************************************)
MaxData == 2      \* number of distinct training data sets
MaxBatch == 2     \* longest enumerated batch (besides the over-chunk one)
MaxCallers == 2   \* concurrent callers of retrain / train

(***************************************************************************)
(* Program constants.                                                      *)
(***************************************************************************)
batch_size == 100

(***************************************************************************)
(* Classes and the registry built by MLEngine._load_models.                *)
(***************************************************************************)

model_classes ==
    [decision_tree  |-> "DecisionTree",
     random_forest  |-> "RandomForest",
     neural_network |-> "NeuralNetwork",
     qda            |-> "QDA"]

\* the abstract methods declared by BaseModel
AbstractMethods == {"train", "predict", "predict_proba", "get_feature_importance"}

\* the methods each concrete class defines (by name)
DefinedMethods(v) ==
    CASE v = "DecisionTree"  -> {"preprocess_features", "_get_common_values", "train",
                                 "predict", "predict_proba", "get_feature_importance",
                                 "save_model", "load_model"}
      [] v = "RandomForest"  -> {"_initialize_model", "train", "predict", "predict_proba",
                                 "get_feature_importance", "get_tree_info",
                                 "get_model_summary"}
      [] v = "NeuralNetwork" -> {"preprocess_features", "_get_common_values", "train",
                                 "predict", "get_feature_importance", "get_network_info",
                                 "save_model", "load_model"}
      [] v = "QDA"           -> {"preprocess_features", "_get_common_values", "train",
                                 "predict", "get_feature_importance", "get_model_info",
                                 "get_class_statistics", "save_model", "load_model"}

\* model_class() (and the retry model_class(model_type="classifier")) succeeds:
\* no abstract method is left undefined and BaseModel.__init__ gets its arguments
Instantiable(v) ==
    /\ AbstractMethods \subseteq DefinedMethods(v)
    /\ v \in {"DecisionTree", "RandomForest"}   \* super().__init__ is given its arguments

\* the state of a Model right after its constructor
NewModel(v, mt) ==
    IF v = "RandomForest"
    THEN [variant |-> v, model_name |-> "random_forest", model_type |-> "ensemble",
          version |-> "1.0.0", feature_names |-> << "funding_total_usd", "funding_rounds",
                "founded_at_year", "category_code", "country_code", "state_code", "region",
                "city", "employee_count", "has_angel_investors", "has_vc_investors",
                "time_to_first_funding", "last_funding_at_year", "first_funding_at_year" >>,
          performance_metrics |-> 0, training_date |-> 0, is_trained |-> FALSE,
          model |-> [cls |-> "RandomForest", kind |-> "classifier", fit |-> 0],
          scaler |-> [cls |-> "none", kind |-> "none", fit |-> 0], label_encoders |-> {}]
    ELSE [variant |-> v, model_name |-> "decision_tree", model_type |-> mt,
          version |-> "1.0.0", feature_names |-> << >>,
          performance_metrics |-> 0, training_date |-> 0, is_trained |-> FALSE,
          model |-> [cls |-> "DecisionTree",
                    kind |-> IF mt = "classifier" THEN "classifier" ELSE "regressor",
                    fit |-> 0],
          scaler |-> [cls |-> "StandardScaler", kind |-> "scaler", fit |-> 0],
          label_encoders |-> {}]

ModelNames == {"decision_tree", "random_forest", "neural_network", "qda"}

\* MLEngine._load_models: a class that cannot be instantiated is skipped
_load_models ==
    [n \in {k \in ModelNames : Instantiable(model_classes[k])}
        |-> NewModel(model_classes[n], "classifier")]

\* the keys extract_features produces for an input without founded_date
ExtractedCols ==
    << "revenue", "revenue_growth", "recurring_revenue_ratio", "funding_amount",
       "previous_funding", "funding_stage_numeric", "burn_rate", "runway_months",
       "unit_economics_score", "company_age", "sector_numeric",
       "business_model_numeric", "geography_tier", "employee_count",
       "employee_growth", "market_size", "competition_level_numeric",
       "market_growth_rate", "market_penetration", "current_year", "current_month",
       "current_quarter", "founder_experience", "team_size", "technical_team_ratio",
       "advisor_count", "previous_exits", "product_readiness", "customer_count",
       "customer_acquisition_cost", "customer_lifetime_value", "churn_rate",
       "nps_score", "ltv_cac_ratio" >>

\* identity of the frame pd.DataFrame(processed_X) that retrain_model builds
\* from the extracted rows of training data d
ProcessedOffset == 100

(***************************************************************************)
(* Training data and instances.                                            *)
(***************************************************************************)
DataIds == 1..MaxData

\* the ordered column list of training data set d (0 is the frame without rows,
\* which pd.DataFrame([]) builds without columns)
DataCols(d) ==
    CASE d = 0     -> << >>
      [] d >= ProcessedOffset -> ExtractedCols
      [] d % 3 = 1 -> << "revenue", "company_age" >>
      [] d % 3 = 2 -> << "revenue" >>
      [] OTHER     -> << "sector_categorical", "revenue" >>

\* where training on a data set breaks: nowhere, in scaler.fit / train_test_split,
\* in the estimator's fit, or in the evaluation after the fit
FailPoints == {"none", "prepare", "fit", "evaluate"}

\* a feature mapping: its keys in insertion order, an abstract numeric content,
\* and whether one of its values is a string
Instances ==
    { [cols |-> c, v |-> v, str |-> FALSE] :
          c \in { << >>, << "revenue" >>, << "revenue", "company_age" >>,
                  << "revenue", "company_age", "extra" >> },
          v \in 0..1 }
    \cup { [cols |-> << "revenue", "company_age" >>, v |-> 0, str |-> TRUE] }

Range(s) == { s[i] : i \in DOMAIN s }

(***************************************************************************)
(* The wrapped sklearn objects.                                            *)
(***************************************************************************)
\* number of columns an estimator or scaler was fitted on
NFeaturesIn(e) == IF e.fit = 0 THEN 0 ELSE Len(DataCols(e.fit))

\* scaler.transform / estimator.predict raise on an unfitted object, on a
\* column-count mismatch and on a value that is not numeric
SkAccepts(e, x) == e.fit # 0 /\ Len(x.cols) = NFeaturesIn(e) /\ ~x.str

\* probability (in percent) the fitted classifier gives to class 1
ClassOneProba(est, sc, x) ==
    << 10, 70, 30, 90 >>[((est.fit + 2 * sc.fit + x.v + Len(x.cols)) % 4) + 1]

\* estimator.predict: the class of larger probability
EstimatorPredict(est, sc, x) == IF ClassOneProba(est, sc, x) > 50 THEN 1 ELSE 0

Max(a, b) == IF a >= b THEN a ELSE b

Min(a, b) == IF a <= b THEN a ELSE b

IsClassifier(est) == est.kind = "classifier"

(***************************************************************************)
(* Results of a single-instance call.                                      *)
(*   kind "value": an ordinary return value (label / conf, -1 when absent) *)
(*   kind "error": a returned {"error": msg} payload                       *)
(*   kind "none" : a returned None                                         *)
(*   kind "raise": an exception with message msg                           *)
(***************************************************************************)
Value(l, c) == [kind |-> "value", msg |-> "", label |-> l, conf |-> c]
ErrorPayload(m) == [kind |-> "error", msg |-> m, label |-> -1, conf |-> -1]
NoneResult == [kind |-> "none", msg |-> "", label |-> -1, conf |-> -1]
Raise(m) == [kind |-> "raise", msg |-> m, label |-> -1, conf |-> -1]

\* the booleans a method returns
True == [kind |-> "value", msg |-> "True", label |-> -1, conf |-> -1]
False == [kind |-> "value", msg |-> "False", label |-> -1, conf |-> -1]

\* a returned mapping feature -> score, by its ordered keys
Mapping(names) == [kind |-> "mapping", msg |-> "", names |-> names]

\* a validation that also rejects the keys outside the feature-name list
validate_features_ExactKeys(m, x) ==
    IF m.feature_names = << >> THEN TRUE
    ELSE Range(m.feature_names) = Range(x.cols)

\* BaseModel.validate_features
validate_features(m, x) ==
    IF m.feature_names = << >> THEN TRUE
    ELSE Range(m.feature_names) \ Range(x.cols) = {}

\* DecisionTreeModel.predict
DecisionTree_predict(m, x) ==
    IF ~m.is_trained THEN ErrorPayload("Model not trained")
    ELSE IF ~(m.scaler.cls = "StandardScaler" /\ SkAccepts(m.scaler, x))
         THEN ErrorPayload("scaler.transform failed")
    ELSE IF ~SkAccepts(m.model, x) THEN ErrorPayload("estimator failed")
    ELSE IF m.model_type = "classifier"
         THEN IF ~IsClassifier(m.model) THEN ErrorPayload("estimator failed")
              ELSE Value(EstimatorPredict(m.model, m.scaler, x),
                         Max(ClassOneProba(m.model, m.scaler, x),
                             100 - ClassOneProba(m.model, m.scaler, x)))
    ELSE Value(EstimatorPredict(m.model, m.scaler, x), -1)

\* DecisionTreeModel.predict_proba
DecisionTree_predict_proba(m, x) ==
    IF ~m.is_trained THEN NoneResult
    ELSE IF ~(m.scaler.cls = "StandardScaler" /\ SkAccepts(m.scaler, x)) THEN NoneResult
    ELSE IF m.model_type = "classifier" /\ IsClassifier(m.model)
         THEN IF ~SkAccepts(m.model, x) THEN NoneResult
              ELSE Value(-1, Max(ClassOneProba(m.model, m.scaler, x),
                                 100 - ClassOneProba(m.model, m.scaler, x)))
    ELSE NoneResult

\* RandomForestModel.predict
RandomForest_predict(m, x) ==
    IF ~m.is_trained THEN Raise("Model must be trained before making predictions")
    ELSE IF ~validate_features(m, x) THEN Raise("Invalid features provided")
    ELSE IF ~SkAccepts(m.model, x) THEN Raise("estimator failed")
    ELSE Value(EstimatorPredict(m.model, m.scaler, x), -1)

\* RandomForestModel.predict_proba
RandomForest_predict_proba(m, x) ==
    IF ~m.is_trained THEN Raise("Model must be trained before making predictions")
    ELSE IF ~SkAccepts(m.model, x) \/ ~IsClassifier(m.model) THEN Raise("estimator failed")
    ELSE Value(-1, ClassOneProba(m.model, m.scaler, x))

\* a prediction that, like preprocess_features, creates the label encoder of a
\* string column it has not seen
AfterPredict_FitsEncoders(m, x) ==
    IF x.str THEN [m EXCEPT !.label_encoders = @ \cup Range(x.cols)] ELSE m

\* the Model after predict / predict_proba: neither method of either class
\* assigns to a field of self, and scaler.transform, estimator.predict and
\* estimator.predict_proba do not modify the fitted objects
AfterPredict(m, x) == m

\* dynamic dispatch of model.predict / model.predict_proba
predict(m, x) ==
    IF m.variant = "RandomForest" THEN RandomForest_predict(m, x)
    ELSE DecisionTree_predict(m, x)

predict_proba(m, x) ==
    IF m.variant = "RandomForest" THEN RandomForest_predict_proba(m, x)
    ELSE DecisionTree_predict_proba(m, x)

\* dict(zip(self.feature_names, importances)): zip stops at the shorter one
ZipNames(names, n) == SubSeq(names, 1, Min(Len(names), n))

\* DecisionTreeModel.get_feature_importance; reading feature_importances_ of
\* an estimator that was never fitted raises
DecisionTree_get_feature_importance(m) ==
    IF ~m.is_trained THEN Mapping(<< >>)
    ELSE IF m.model.fit = 0 THEN Raise("NotFittedError")
    ELSE Mapping(ZipNames(m.feature_names, NFeaturesIn(m.model)))

\* RandomForestModel.get_feature_importance
RandomForest_get_feature_importance(m) ==
    IF ~m.is_trained THEN Raise("Model must be trained to get feature importance")
    ELSE IF m.model.fit = 0 THEN Mapping(<< >>)
    ELSE Mapping(ZipNames(m.feature_names, NFeaturesIn(m.model)))

get_feature_importance(m) ==
    IF m.variant = "RandomForest" THEN RandomForest_get_feature_importance(m)
    ELSE DecisionTree_get_feature_importance(m)

(***************************************************************************)
(* BaseModel.predict_batch / predict_proba_batch: a sequential fan-out     *)
(* that appends one result per input; the first call that raises leaves    *)
(* the loop and the method.  The single-instance calls change no state, so *)
(* the loop is the pointwise map cut at the first exception.               *)
(***************************************************************************)
FanOut(m, L, proba) ==
    LET r == [k \in 1..Len(L) |->
                 IF proba THEN predict_proba(m, L[k]) ELSE predict(m, L[k])]
        raising == {k \in 1..Len(L) : r[k].kind = "raise"}
        first == CHOOSE k \in raising : \A j \in raising : k <= j
    IN  IF raising = {} THEN [kind |-> "value", msg |-> "", items |-> r]
        ELSE [kind |-> "raise", msg |-> r[first].msg, items |-> << >>]

predict_batch(m, L) == FanOut(m, L, FALSE)

predict_proba_batch(m, L) == FanOut(m, L, TRUE)

(***************************************************************************)
(* Training, statement by statement.  TrainStep(m, d, fail, k) is the k-th *)
(* mutation of train(X, y) on data set d, where fail names the statement   *)
(* that raises for this data.                                              *)
(***************************************************************************)
Fitted(e, d) == [e EXCEPT !.fit = d]

Continue(m) == [m |-> m, done |-> FALSE, res |-> NoneResult]
Done(m, r) == [m |-> m, done |-> TRUE, res |-> r]

TrainSuccess == [kind |-> "value", msg |-> "success", label |-> -1, conf |-> -1]
TrainFailed == ErrorPayload("training failed")

\* DecisionTreeModel.train: every exception is turned into a "failed" payload
DecisionTree_TrainStep(m, d, fail, k) ==
    CASE k = 1 -> Continue([m EXCEPT !.feature_names = DataCols(d)])
      [] k = 2 -> IF fail = "prepare" \/ d = 0
                  \* StandardScaler.fit resets the scaler before it validates X
                  THEN Done([m EXCEPT !.scaler = Fitted(@, 0)], TrainFailed)
                  ELSE Continue([m EXCEPT !.scaler = Fitted(@, d)])
      [] k = 3 -> IF fail = "fit"
                  THEN Done(m, TrainFailed)
                  ELSE Continue([m EXCEPT !.model = Fitted(@, d), !.is_trained = TRUE])
      [] OTHER -> IF fail = "evaluate" THEN Done(m, TrainFailed) ELSE Done(m, TrainSuccess)

\* RandomForestModel.train: every exception is logged and re-raised
RandomForest_TrainStep(m, d, fail, k) ==
    CASE k = 1 -> IF fail = "prepare" \/ d = 0
                  THEN Done(m, Raise("train_test_split failed"))
                  ELSE Continue(m)
      [] k = 2 -> IF fail = "fit"
                  THEN Done(m, Raise("fit failed"))
                  ELSE Continue([m EXCEPT !.model = Fitted(@, d)])
      [] k = 3 -> IF fail = "evaluate"
                  THEN Done(m, Raise("evaluation failed"))
                  ELSE Continue(m)
      [] OTHER -> Done([m EXCEPT !.performance_metrics = d, !.training_date = 1,
                                 !.is_trained = TRUE, !.feature_names = DataCols(d)],
                       TrainSuccess)

TrainStep(m, d, fail, k) ==
    IF m.variant = "RandomForest" THEN RandomForest_TrainStep(m, d, fail, k)
    ELSE DecisionTree_TrainStep(m, d, fail, k)

\* a whole train call run without interruption, from statement k on
RECURSIVE RunTrain(_, _, _, _)
RunTrain(m, d, fail, k) ==
    LET s == TrainStep(m, d, fail, k)
    IN  IF s.done THEN s ELSE RunTrain(s.m, d, fail, k + 1)

train(m, d, fail) == RunTrain(m, d, fail, 1)

(***************************************************************************)
(* FeatureExtractor, as far as the engine uses it.                         *)
(***************************************************************************)

\* FeatureExtractor.extract_features: a numeric vector over the fixed keys
extract_features(x) == [cols |-> ExtractedCols, v |-> x.v, str |-> FALSE]

\* the engine's call self.feature_extractor.extract(features): an attribute
\* lookup on the FeatureExtractor, which raises AttributeError when the class
\* has no such method
FeatureExtractor_extract(x) ==
    IF "extract" \in {"_initialize_feature_mappings", "extract_features",
          "_extract_financial_features", "_extract_company_features",
          "_extract_market_features", "_extract_temporal_features", "_extract_team_features",
          "_extract_product_features", "_calculate_company_age", "_get_geography_tier",
          "_safe_float", "_safe_int", "_get_default_features", "get_feature_names"}
    THEN [kind |-> "value", msg |-> "", features |-> extract_features(x)]
    ELSE [kind |-> "raise", msg |-> "AttributeError: extract", features |-> x]

(***************************************************************************)
(* MLEngine operations, as functions of the registry ms.  Each returns the *)
(* outcome (a return value or a raised exception), the result items and    *)
(* the calls it made to the extractor, the Model and the explainers.       *)
(***************************************************************************)
NotFound == Raise("Model not found")

Outcome(o, items, calls) == [out |-> o, items |-> items, calls |-> calls]

Returned == [kind |-> "value", msg |-> "", label |-> -1, conf |-> -1]

\* an engine result entry: float(confidence) if confidence is not None else None
Entry(p, c, i) ==
    [prediction |-> p, confidence |-> IF c.kind = "none" THEN -1 ELSE c.conf, index |-> i]

\* MLEngine.predict with the extraction moved in front of the registry check
MLEngine_predict_ExtractFirst(ms, model_name, x) ==
    LET e == FeatureExtractor_extract(x)
    IN  IF e.kind = "raise" THEN Outcome(Raise(e.msg), << >>, << "extract" >>)
        ELSE IF model_name \notin DOMAIN ms THEN Outcome(NotFound, << >>, << "extract" >>)
        ELSE Outcome(Returned,
                     << Entry(predict(ms[model_name], e.features),
                              predict_proba(ms[model_name], e.features), 0) >>,
                     << "extract", "predict", "predict_proba" >>)

\* MLEngine.predict
MLEngine_predict(ms, model_name, x) ==
    IF model_name \notin DOMAIN ms THEN Outcome(NotFound, << >>, << >>)
    ELSE LET model == ms[model_name]
             e == FeatureExtractor_extract(x)
             p == predict(model, e.features)
             c == predict_proba(model, e.features)
         IN  IF e.kind = "raise" THEN Outcome(Raise(e.msg), << >>, << "extract" >>)
             ELSE IF p.kind = "raise"
                  THEN Outcome(Raise(p.msg), << >>, << "extract", "predict" >>)
             ELSE IF c.kind = "raise"
                  THEN Outcome(Raise(c.msg), << >>, << "extract", "predict", "predict_proba" >>)
             ELSE Outcome(Returned, << Entry(p, c, 0) >>,
                          << "extract", "predict", "predict_proba" >>)

\* the extraction loop over one chunk of predict_batch
ExtractAll(batch) ==
    LET e == [k \in 1..Len(batch) |-> FeatureExtractor_extract(batch[k])]
        raising == {k \in 1..Len(batch) : e[k].kind = "raise"}
        first == CHOOSE k \in raising : \A j \in raising : k <= j
    IN  IF raising = {}
        THEN [kind |-> "value", msg |-> "", items |-> [k \in 1..Len(batch) |-> e[k].features]]
        ELSE [kind |-> "raise", msg |-> e[first].msg, items |-> << >>]

\* zip(predictions, confidences) with the index i + j
ZipEntries(ps, cs, i) ==
    [j \in 1..Min(Len(ps), Len(cs)) |-> Entry(ps[j], cs[j], i + j - 1)]

\* MLEngine.predict_batch from offset i (0-based) on, results so far in acc
RECURSIVE BatchLoop(_, _, _, _, _)
BatchLoop(model, L, i, acc, calls) ==
    IF i >= Len(L) THEN Outcome(Returned, acc, calls)
    ELSE LET batch == SubSeq(L, i + 1, Min(i + batch_size, Len(L)))
             ex == ExtractAll(batch)
             ps == predict_batch(model, ex.items)
             cs == predict_proba_batch(model, ex.items)
         IN  IF ex.kind = "raise"
             THEN Outcome(Raise(ex.msg), << >>, Append(calls, "extract"))
             ELSE IF ps.kind = "raise"
                  THEN Outcome(Raise(ps.msg), << >>, calls \o << "extract", "predict_batch" >>)
             ELSE IF cs.kind = "raise"
                  THEN Outcome(Raise(cs.msg), << >>,
                               calls \o << "extract", "predict_batch", "predict_proba_batch" >>)
             ELSE BatchLoop(model, L, i + batch_size,
                            acc \o ZipEntries(ps.items, cs.items, i),
                            calls \o << "extract", "predict_batch", "predict_proba_batch" >>)

MLEngine_predict_batch(ms, model_name, L) ==
    IF model_name \notin DOMAIN ms THEN Outcome(NotFound, << >>, << >>)
    ELSE BatchLoop(ms[model_name], L, 0, << >>, << >>)

\* explanation_method.lower()
Lower(s) == CASE s = "SHAP" -> "shap" [] s = "LIME" -> "lime" [] OTHER -> s

\* MLEngine.explain_prediction
MLEngine_explain_prediction(ms, model_name, x, explanation_method) ==
    IF model_name \notin DOMAIN ms THEN Outcome(NotFound, << >>, << >>)
    ELSE LET e == FeatureExtractor_extract(x)
         IN  IF e.kind = "raise" THEN Outcome(Raise(e.msg), << >>, << "extract" >>)
             ELSE IF Lower(explanation_method) = "shap"
                  THEN IF "explain" \in {"create_explainer", "explain_prediction",
                             "get_feature_importance", "create_summary_plot_data",
                             "_get_explainer_type", "is_available", "get_explainer_info"}
                       THEN Outcome(Returned, << >>, << "extract", "shap.explain" >>)
                       ELSE Outcome(Raise("AttributeError: explain"), << >>, << "extract" >>)
             ELSE IF Lower(explanation_method) = "lime"
                  THEN IF "explain" \in {"create_explainer", "explain_prediction",
                             "explain_prediction_html", "get_feature_importance",
                             "_extract_feature_name", "create_prediction_wrapper",
                             "is_available", "get_explainer_info", "remove_explainer"}
                       THEN Outcome(Returned, << >>, << "extract", "lime.explain" >>)
                       ELSE Outcome(Raise("AttributeError: explain"), << >>, << "extract" >>)
             ELSE Outcome(Raise("Unknown explanation method"), << >>, << "extract" >>)

\* MLEngine.get_model_info
MLEngine_get_model_info(ms, model_name) ==
    IF model_name \notin DOMAIN ms THEN Outcome(NotFound, << >>, << >>)
    ELSE Outcome(Returned, << ms[model_name] >>, << >>)

\* MLEngine.retrain_model up to its call of model.train, on a frame with `rows`
\* rows (0 or more) of data set d whose target column exists or not: the registry
\* check, the drop of the target column and the extraction loop.  X is the frame
\* handed to train.
retrain_prepare(ms, model_name, d, rows, has_target) ==
    LET e == FeatureExtractor_extract([cols |-> DataCols(d), v |-> 0, str |-> FALSE])
    IN  IF model_name \notin DOMAIN ms
        THEN [out |-> NotFound, calls |-> << >>, X |-> 0]
        ELSE IF ~has_target
             THEN [out |-> Raise("KeyError: target column"), calls |-> << >>, X |-> 0]
        ELSE IF rows > 0 /\ e.kind = "raise"
             THEN [out |-> Raise(e.msg), calls |-> << "extract" >>, X |-> 0]
        ELSE [out |-> Returned,
              calls |-> IF rows = 0 THEN << >> ELSE << "extract" >>,
              X |-> IF rows = 0 THEN 0 ELSE d + ProcessedOffset]

\* the end of MLEngine.retrain_model, given the result of model.train
retrain_result(prep, res) ==
    IF res.kind = "raise" THEN Outcome(Raise(res.msg), << >>, Append(prep.calls, "train"))
    ELSE Outcome(Returned, << res >>, Append(prep.calls, "train"))

\* MLEngine.retrain_model run without interruption; returns the outcome and the
\* new registry
MLEngine_retrain_model(ms, model_name, d, rows, has_target, fail) ==
    LET prep == retrain_prepare(ms, model_name, d, rows, has_target)
        t == train(ms[model_name], prep.X, fail)
    IN  IF prep.out.kind = "raise"
        THEN [o |-> Outcome(prep.out, << >>, prep.calls), ms |-> ms]
        ELSE [o |-> retrain_result(prep, t.res), ms |-> [ms EXCEPT ![model_name] = t.m]]

(***************************************************************************)
(* Health check.                                                           *)
(***************************************************************************)
\* the branch of get_dummy_features a feature name takes: the first keyword
\* group of which a keyword is a substring of the lower-cased name
DummyKind(f) ==
    CASE f \in {"revenue", "funding_total_usd", "funding_rounds", "funding_amount",
                "time_to_first_funding", "last_funding_at_year",
                "first_funding_at_year"}                      -> "amount"
      [] f \in {"company_age"}                                -> "period"
      [] f \in {"employee_count", "country_code", "customer_count"} -> "count"
      [] f \in {"churn_rate", "burn_rate"}                    -> "rate"
      [] f \in {"sector_categorical"}                         -> "categorical"
      [] OTHER                                                -> "numeric"

\* BaseModel.get_dummy_features: one value per feature name, a string for a
\* "..._categorical" name; the empty mapping when there are no feature names
get_dummy_features(m) ==
    [cols |-> m.feature_names, v |-> 1,
     str |-> \E i \in DOMAIN m.feature_names : DummyKind(m.feature_names[i]) = "categorical"]

\* the status health_check records for one model
ModelStatus(m) ==
    LET r == predict(m, get_dummy_features(m))
    IN  IF r.kind = "raise" THEN "unhealthy: " \o r.msg ELSE "healthy"

\* MLEngine.health_check that calls the engine healthy once any model is healthy
MLEngine_health_check_AnyHealthy(ms) ==
    LET model_status == [n \in DOMAIN ms |-> ModelStatus(ms[n])]
        healthy_models == Cardinality({n \in DOMAIN model_status : model_status[n] = "healthy"})
        total_models == Cardinality(DOMAIN model_status)
    IN  [status |-> IF healthy_models > 0 THEN "healthy" ELSE "degraded",
         models_loaded |-> total_models,
         healthy_models |-> healthy_models,
         model_status |-> model_status]

\* MLEngine.health_check without the try/except around one model: the models
\* after the first one that raises are not exercised
MLEngine_health_check_StopAtFirst(ms) ==
    LET raising == {n \in DOMAIN ms : ModelStatus(ms[n]) # "healthy"}
        model_status == [n \in (IF raising = {} THEN DOMAIN ms ELSE raising)
                            |-> ModelStatus(ms[n])]
        healthy_models == Cardinality({n \in DOMAIN model_status : model_status[n] = "healthy"})
        total_models == Cardinality(DOMAIN model_status)
    IN  [status |-> IF healthy_models = total_models THEN "healthy" ELSE "degraded",
         models_loaded |-> total_models,
         healthy_models |-> healthy_models,
         model_status |-> model_status]

\* MLEngine.health_check
MLEngine_health_check(ms) ==
    LET model_status == [n \in DOMAIN ms |-> ModelStatus(ms[n])]
        healthy_models == Cardinality({n \in DOMAIN model_status : model_status[n] = "healthy"})
        total_models == Cardinality(DOMAIN model_status)
    IN  [status |-> IF healthy_models = total_models THEN "healthy" ELSE "degraded",
         models_loaded |-> total_models,
         healthy_models |-> healthy_models,
         model_status |-> model_status]

(***************************************************************************)
(* Persistence: save_model / load_model.  An artifact is missing, corrupt  *)
(* (not unpicklable) or a bundle: a mapping from keys to values.  saved is *)
(* a history variable inside the artifact: the Model as it was when saved. *)
(***************************************************************************)
NoModel == [variant |-> "none"]
EmptyBundle == [k \in {} |-> 0]
Missing == [kind |-> "missing", fmt |-> "", data |-> EmptyBundle, saved |-> NoModel]

\* DecisionTreeModel.save_model: the joblib bundle
DecisionTree_bundle(m) ==
    [model |-> m.model, scaler |-> m.scaler, label_encoders |-> m.label_encoders,
     feature_names |-> m.feature_names, model_name |-> m.model_name,
     version |-> m.version, model_type |-> m.model_type, is_trained |-> m.is_trained]

\* BaseModel.save_model (used by RandomForestModel): the pickle bundle
BaseModel_bundle(m) ==
    [model |-> m.model, model_name |-> m.model_name, model_type |-> m.model_type,
     version |-> m.version, feature_names |-> m.feature_names,
     performance_metrics |-> m.performance_metrics,
     training_date |-> m.training_date, is_trained |-> m.is_trained]

\* save_model: the artifact written when the write succeeds
save_model(m) ==
    IF m.variant = "RandomForest"
    THEN [kind |-> "bundle", fmt |-> "pickle", data |-> BaseModel_bundle(m), saved |-> m]
    ELSE [kind |-> "bundle", fmt |-> "joblib", data |-> DecisionTree_bundle(m), saved |-> m]

\* load_model that does not restore model_type
LoadOrder_NoModelType(v) ==
    IF v = "RandomForest"
    THEN << "model", "model_name", "version", "feature_names",
            "performance_metrics", "training_date", "is_trained" >>
    ELSE << "model", "scaler", "label_encoders", "feature_names", "model_name",
            "version", "is_trained" >>

\* the order in which load_model reads the keys and assigns the fields
LoadOrder(v) ==
    IF v = "RandomForest"
    THEN << "model", "model_name", "model_type", "version", "feature_names",
            "performance_metrics", "training_date", "is_trained" >>
    ELSE << "model", "scaler", "label_encoders", "feature_names", "model_name",
            "version", "model_type", "is_trained" >>

\* self.<key> = model_data[<key>], key after key; a missing key raises KeyError,
\* which ends the method with the assignments made so far
RECURSIVE LoadKeys(_, _, _, _)
LoadKeys(m, data, keys, k) ==
    IF k > Len(keys) THEN [m |-> m, ok |-> TRUE]
    ELSE IF keys[k] \notin DOMAIN data THEN [m |-> m, ok |-> FALSE]
    ELSE LoadKeys([m EXCEPT ![keys[k]] = data[keys[k]]], data, keys, k + 1)

\* load_model: parses says whether the file can be unpickled by this loader
load_model(m, a, parses) ==
    IF a.kind # "bundle" \/ ~parses THEN [m |-> m, ok |-> FALSE]
    ELSE LoadKeys(m, a.data, LoadOrder(m.variant), 1)

\* joblib.load reads joblib and plain pickle files; whether pickle.load can read
\* a joblib file depends on the arrays inside it
MayParse(v, a) ==
    IF a.kind # "bundle" THEN {FALSE}
    ELSE IF v = "RandomForest" /\ a.fmt = "joblib" THEN {TRUE, FALSE}
    ELSE {TRUE}

(***************************************************************************)
(* State.                                                                  *)
(*   models   the engine's registry: model name -> Model                   *)
(*   spare    a Model instance created by a caller outside the registry    *)
(*   store    the artifact files: path -> artifact                         *)
(*   last     the call that has just ended: its inputs, its outcome and    *)
(*            the Model as it was before the call                          *)
(*   health   the report of the last health_check                          *)
(*   callers  the train / retrain_model calls in progress                  *)
(***************************************************************************)
VARIABLES models, spare, store, last, health, callers, shap_explainer, lime_explainer

vars == << models, spare, store, last, health, callers, shap_explainer, lime_explainer >>

Paths == {"a.pkl"}
CallerIds == 1..MaxCallers
RequestNames == ModelNames \cup {"unknown"}

\* the instances batches are built from
BatchInstances ==
    { [cols |-> << "revenue", "company_age" >>, v |-> 0, str |-> FALSE],
      [cols |-> << "revenue", "company_age" >>, v |-> 1, str |-> FALSE],
      [cols |-> << "revenue" >>, v |-> 0, str |-> FALSE] }

BatchLists ==
    UNION { [1..n -> BatchInstances] : n \in 0..MaxBatch }
        \cup { [k \in 1..(batch_size + 1) |->
                  [cols |-> << "revenue", "company_age" >>, v |-> k % 2, str |-> FALSE]] }

Idle == [op |-> "idle", name |-> "", out |-> Returned, inputs |-> << >>,
         items |-> << >>, calls |-> << >>, pre |-> NoModel]

NoReport == [status |-> "none", models_loaded |-> 0, healthy_models |-> 0,
             model_status |-> [n \in {} |-> ""]]

IdleCaller == [pc |-> "idle", name |-> "", d |-> 0, fail |-> "none", k |-> 0,
               calls |-> << >>, via |-> ""]

\* the state after MLEngine() in a process where the imports of shap and lime
\* succeeded or not; SHAPExplainer() and LIMEExplainer() hold no explainer yet
Constructed(shap_available, lime_available) ==
    /\ models = _load_models
    /\ spare = NewModel("DecisionTree", "classifier")
    /\ store = [p \in Paths |-> Missing]
    /\ last = Idle
    /\ health = NoReport
    /\ callers = [c \in CallerIds |-> IdleCaller]
    /\ shap_explainer = [available |-> shap_available, explainers |-> << >>]
    /\ lime_explainer = [available |-> lime_available, explainers |-> << >>]

Init == Constructed(TRUE, TRUE)

\* the Model an object identifier denotes
Obj(o) == IF o = "spare" THEN spare ELSE models[o]

SetObj(o, m) ==
    IF o = "spare" THEN spare' = m /\ UNCHANGED models
    ELSE models' = [models EXCEPT ![o] = m] /\ UNCHANGED spare

Call(op, name, out, inputs, items, calls, pre) ==
    [op |-> op, name |-> name, out |-> out, inputs |-> inputs, items |-> items,
     calls |-> calls, pre |-> pre]

\* the caller takes the result of the call that ended
Return ==
    /\ last # Idle
    /\ last' = Idle
    /\ UNCHANGED << models, spare, store, health, callers, shap_explainer, lime_explainer >>

(***************************************************************************)
(* Calls on a Model.                                                       *)
(***************************************************************************)
\* a caller constructs a Model of class v; only DecisionTreeModel takes model_type
NewInstance(v, mt) ==
    /\ last = Idle
    /\ IF Instantiable(v)
       THEN /\ spare' = NewModel(v, mt)
            /\ last' = Call("new", v, Returned, << >>, << >>, << >>, spare)
       ELSE /\ spare' = spare
            /\ last' = Call("new", v, Raise("TypeError"), << >>, << >>, << >>, spare)
    /\ UNCHANGED << models, store, health, callers, shap_explainer, lime_explainer >>

Train(o, d, fail) ==
    /\ last = Idle
    /\ LET t == train(Obj(o), d, fail)
       IN  /\ SetObj(o, t.m)
           /\ last' = Call("train", o, t.res, << d >>, << >>, << >>, Obj(o))
    /\ UNCHANGED << store, health, callers, shap_explainer, lime_explainer >>

ModelPredict(o, x) ==
    /\ last = Idle
    /\ LET r == predict(Obj(o), x)
       IN  last' = Call("predict", o, r, << x >>, << r >>, << >>, Obj(o))
    /\ SetObj(o, AfterPredict(Obj(o), x))
    /\ UNCHANGED << store, health, callers, shap_explainer, lime_explainer >>

ModelPredictProba(o, x) ==
    /\ last = Idle
    /\ LET r == predict_proba(Obj(o), x)
       IN  last' = Call("predict_proba", o, r, << x >>, << r >>, << >>, Obj(o))
    /\ SetObj(o, AfterPredict(Obj(o), x))
    /\ UNCHANGED << store, health, callers, shap_explainer, lime_explainer >>

ModelGetFeatureImportance(o) ==
    /\ last = Idle
    /\ last' = Call("get_feature_importance", o, get_feature_importance(Obj(o)),
                    << >>, << >>, << >>, Obj(o))
    /\ UNCHANGED << models, spare, store, health, callers, shap_explainer, lime_explainer >>

ModelValidateFeatures(o, x) ==
    /\ last = Idle
    /\ last' = Call("validate_features", o,
                    IF validate_features(Obj(o), x) THEN True ELSE False,
                    << x >>, << >>, << >>, Obj(o))
    /\ UNCHANGED << models, spare, store, health, callers, shap_explainer, lime_explainer >>

ModelPredictBatch(o, L) ==
    /\ last = Idle
    /\ LET r == predict_batch(Obj(o), L)
       IN  last' = Call("model.predict_batch", o,
                        [kind |-> r.kind, msg |-> r.msg, label |-> -1, conf |-> -1],
                        L, r.items, << >>, Obj(o))
    /\ UNCHANGED << models, spare, store, health, callers, shap_explainer, lime_explainer >>

ModelPredictProbaBatch(o, L) ==
    /\ last = Idle
    /\ LET r == predict_proba_batch(Obj(o), L)
       IN  last' = Call("model.predict_proba_batch", o,
                        [kind |-> r.kind, msg |-> r.msg, label |-> -1, conf |-> -1],
                        L, r.items, << >>, Obj(o))
    /\ UNCHANGED << models, spare, store, health, callers, shap_explainer, lime_explainer >>

(***************************************************************************)
(* Calls on the engine.                                                    *)
(***************************************************************************)
EngineOps == {"engine.predict", "engine.predict_batch", "engine.explain_prediction",
              "engine.get_model_info", "engine.retrain_model"}

Pre(name) == IF name \in DOMAIN models THEN models[name] ELSE NoModel

EnginePredict(name, x) ==
    /\ last = Idle
    /\ LET r == MLEngine_predict(models, name, x)
       IN  last' = Call("engine.predict", name, r.out, << x >>, r.items, r.calls, Pre(name))
    /\ UNCHANGED << models, spare, store, health, callers, shap_explainer, lime_explainer >>

EnginePredictBatch(name, L) ==
    /\ last = Idle
    /\ LET r == MLEngine_predict_batch(models, name, L)
       IN  last' = Call("engine.predict_batch", name, r.out, L, r.items, r.calls, Pre(name))
    /\ UNCHANGED << models, spare, store, health, callers, shap_explainer, lime_explainer >>

EngineExplain(name, x, method) ==
    /\ last = Idle
    /\ LET r == MLEngine_explain_prediction(models, name, x, method)
       IN  last' = Call("engine.explain_prediction", name, r.out, << x, method >>, r.items,
                        r.calls, Pre(name))
    /\ UNCHANGED << models, spare, store, health, callers, shap_explainer, lime_explainer >>

EngineGetModelInfo(name) ==
    /\ last = Idle
    /\ LET r == MLEngine_get_model_info(models, name)
       IN  last' = Call("engine.get_model_info", name, r.out, << >>, r.items, r.calls,
                        Pre(name))
    /\ UNCHANGED << models, spare, store, health, callers, shap_explainer, lime_explainer >>

EngineRetrain(name, d, rows, has_target, fail) ==
    /\ last = Idle
    /\ LET r == MLEngine_retrain_model(models, name, d, rows, has_target, fail)
       IN  /\ models' = r.ms
           /\ last' = Call("engine.retrain_model", name, r.o.out, << d, rows >>,
                           r.o.items, r.o.calls, Pre(name))
    /\ UNCHANGED << spare, store, health, callers, shap_explainer, lime_explainer >>

HealthCheck ==
    /\ last = Idle
    /\ health' = MLEngine_health_check(models)
    /\ last' = Call("engine.health_check", "", Returned, << >>, << >>, << >>, NoModel)
    /\ UNCHANGED << models, spare, store, callers, shap_explainer, lime_explainer >>

(***************************************************************************)
(* The engine and its registered Models, called by one caller at a time.   *)
(***************************************************************************)
Next ==
    \/ Return
    \/ \E o \in DOMAIN models, d \in DataIds, fail \in FailPoints : Train(o, d, fail)
    \/ \E o \in DOMAIN models, x \in Instances : ModelPredict(o, x)
    \/ \E o \in DOMAIN models, x \in Instances : ModelPredictProba(o, x)
    \/ \E o \in DOMAIN models : ModelGetFeatureImportance(o)
    \/ \E o \in DOMAIN models, x \in Instances : ModelValidateFeatures(o, x)
    \/ \E o \in DOMAIN models, L \in BatchLists : ModelPredictBatch(o, L)
    \/ \E o \in DOMAIN models, L \in BatchLists : ModelPredictProbaBatch(o, L)
    \/ \E n \in RequestNames, x \in BatchInstances : EnginePredict(n, x)
    \/ \E n \in RequestNames, L \in BatchLists : EnginePredictBatch(n, L)
    \/ \E n \in RequestNames, x \in BatchInstances, me \in {"shap", "SHAP", "lime",
             "other"} : EngineExplain(n, x, me)
    \/ \E n \in RequestNames : EngineGetModelInfo(n)
    \/ \E n \in RequestNames, d \in DataIds, rows \in 0..1, ht \in BOOLEAN,
          fail \in FailPoints : EngineRetrain(n, d, rows, ht, fail)
    \/ HealthCheck

Spec == Init /\ [][Next]_vars

(***************************************************************************)
(* Properties of the engine and the Models.                                *)
(***************************************************************************)
Registered(name) == name \in DOMAIN models

\* C1: every engine operation that takes a model name fails with the 'not found'
\* error when the name is not registered, before it calls the extractor, a Model
\* or an explainer, and leaves the registry and every Model unchanged.
C1_UnknownModelFailsFirst ==
    [][ (last'.op \in EngineOps /\ last'.name \notin DOMAIN models)
            => /\ last'.out = NotFound
               /\ last'.calls = << >>
               /\ last'.items = << >>
               /\ models' = models ]_vars

C1_Witness ==
    /\ last.op = "engine.retrain_model"
    /\ ~Registered(last.name)
    /\ last.out = NotFound
    /\ \E n \in DOMAIN models : models[n].is_trained

\* C2: predict and predict_proba on a Model whose trained flag is false always
\* signal the NotTrained condition (raised or as an error payload) and never
\* return an ordinary value.
C2_UntrainedSignalsNotTrained ==
    (last.op \in {"predict", "predict_proba"} /\ ~last.pre.is_trained)
        => /\ last.out.kind \in {"raise", "error"}
           /\ last.out.msg \in {"Model not trained",
                    "Model must be trained before making predictions"}

\* C3: for a registered Model the extraction step of predict, predict_batch,
\* explain_prediction and retrain_model never is where the request fails: when
\* the extractor was called, control went on to the Model or the explainer.
C3_ExtractionNeverFails ==
    (last.op \in EngineOps /\ Registered(last.name) /\ last.calls # << >>)
        => /\ last.calls[Len(last.calls)] # "extract"
           /\ (last.op = "engine.predict" => "predict" \in Range(last.calls))

\* C4: a failure while scoring one item of a batch does not abort the batch: the
\* call returns, with one result per input.
C4_BatchNotAborted ==
    (last.op \in {"engine.predict_batch", "model.predict_batch",
                  "model.predict_proba_batch"} /\ last.pre # NoModel)
        => /\ last.out.kind # "raise"
           /\ Len(last.items) = Len(last.inputs)

\* no single-instance call of the Model raises on the items of L
SinglesSucceed(m, L) ==
    \A k \in 1..Len(L) :
        /\ predict(m, L[k]).kind # "raise"
        /\ predict_proba(m, L[k]).kind # "raise"
        /\ predict(m, extract_features(L[k])).kind # "raise"
        /\ predict_proba(m, extract_features(L[k])).kind # "raise"

\* C5: when the single-instance operations succeed, the batch operations of the
\* Model and of the engine return exactly one result per input, the k-th result
\* being the one of the k-th input (in the engine, carrying index k).
C5_BatchLengthAndOrder ==
    /\ (last.op = "model.predict_batch" /\ SinglesSucceed(last.pre, last.inputs))
          => /\ Len(last.items) = Len(last.inputs)
             /\ \A k \in 1..Len(last.inputs) :
                    last.items[k] = predict(last.pre, last.inputs[k])
    /\ (last.op = "model.predict_proba_batch" /\ SinglesSucceed(last.pre, last.inputs))
          => /\ Len(last.items) = Len(last.inputs)
             /\ \A k \in 1..Len(last.inputs) :
                    last.items[k] = predict_proba(last.pre, last.inputs[k])
    /\ (last.op = "engine.predict_batch" /\ Registered(last.name)
            /\ SinglesSucceed(last.pre, last.inputs))
          => /\ last.out = Returned
             /\ Len(last.items) = Len(last.inputs)
             /\ \A k \in 1..Len(last.inputs) : last.items[k].index = k - 1

\* C9: health_check returns one status entry per registered model; its overall
\* status is 'healthy' iff every entry is 'healthy' and 'degraded' otherwise;
\* healthy_models never exceeds models_loaded.
C9_HealthReport ==
    health # NoReport
        => /\ DOMAIN health.model_status = DOMAIN models
           /\ health.models_loaded = Cardinality(DOMAIN models)
           /\ health.status \in {"healthy", "degraded"}
           /\ (health.status = "healthy")
                  <=> (\A n \in DOMAIN health.model_status :
                           health.model_status[n] = "healthy")
           /\ health.healthy_models <= health.models_loaded

C9_Witness ==
    /\ last.op = "engine.health_check"
    /\ health.status = "degraded"
    /\ health.healthy_models = 1
    /\ health.models_loaded = 2

\* C10: health_check never raises; a model whose prediction on its dummy
\* features raises is reported as 'unhealthy: <message>', the overall status is
\* then 'degraded', and every other model is still reported with its own status.
C10_HealthCheckIsolatesFailures ==
    last.op = "engine.health_check"
        => /\ last.out = Returned
           /\ DOMAIN health.model_status = DOMAIN models
           /\ \A n \in DOMAIN models :
                LET r == predict(models[n], get_dummy_features(models[n]))
                IN  IF r.kind = "raise"
                    THEN /\ health.model_status[n] = "unhealthy: " \o r.msg
                         /\ health.status = "degraded"
                    ELSE health.model_status[n] = "healthy"

C10_Witness ==
    /\ last.op = "engine.health_check"
    /\ health.model_status["random_forest"]
           = "unhealthy: Model must be trained before making predictions"
    /\ health.model_status["decision_tree"] = "healthy"
    /\ models["decision_tree"].is_trained
    /\ health.status = "degraded"

(***************************************************************************)
(* Saving and loading a Model instance.                                    *)
(***************************************************************************)

\* save_model(path); written says whether the file could be written
Save(o, p, written) ==
    /\ last = Idle
    /\ store' = IF written THEN [store EXCEPT ![p] = save_model(Obj(o))] ELSE store
    /\ last' = Call("save", o, IF written THEN True ELSE False, << p >>, << >>, << >>,
                    Obj(o))
    /\ UNCHANGED << models, spare, health, callers, shap_explainer, lime_explainer >>

\* load_model(path)
Load(o, p, parses) ==
    /\ last = Idle
    /\ parses \in MayParse(Obj(o).variant, store[p])
    /\ LET r == load_model(Obj(o), store[p], parses)
       IN  /\ SetObj(o, r.m)
           /\ last' = Call("load", o, IF r.ok THEN True ELSE False, << p >>,
                           << store[p] >>, << >>, Obj(o))
    /\ UNCHANGED << store, health, callers, shap_explainer, lime_explainer >>

\* the file at path p is deleted, overwritten with bytes that are no pickle, or
\* replaced by a copy of a saved bundle that lacks key k (a partial artifact)
ExternalWrite(p, how, k) ==
    /\ last = Idle
    /\ store' = [store EXCEPT ![p] =
                    CASE how = "delete"  -> Missing
                      [] how = "garbage" -> [kind |-> "corrupt", fmt |-> "",
                               data |-> EmptyBundle, saved |-> NoModel]
                      [] OTHER           -> IF /\ store[p].kind = "bundle"
                                               /\ store[p] = save_model(store[p].saved)
                                            THEN [store[p] EXCEPT !.data =
                                                     [x \in (DOMAIN @) \ {k} |-> @[x]]]
                                            ELSE store[p]]
    /\ store' # store
    /\ UNCHANGED << models, spare, last, health, callers, shap_explainer, lime_explainer >>

\* a caller that saves Models and loads artifacts into fresh instances
NextPersist ==
    \/ Return
    \/ \E v \in {"DecisionTree", "RandomForest", "NeuralNetwork", "QDA"},
             mt \in {"classifier", "regressor"} : NewInstance(v, mt)
    \/ \E d \in DataIds, fail \in FailPoints : Train("spare", d, fail)
    \/ \E p \in Paths, w \in BOOLEAN : Save("spare", p, w)
    \/ \E p \in Paths, ps \in BOOLEAN : 
          /\ \E mt \in {"classifier", "regressor"} : spare = NewModel(spare.variant, mt)
          /\ Load("spare", p, ps)
    \/ \E p \in Paths, how \in {"delete", "garbage", "partial"}, k \in {"model", "version",
             "is_trained"} :
          ExternalWrite(p, how, k)

SpecPersist == Init /\ [][NextPersist]_vars

\* C7: load_model of a missing, corrupt or partial artifact reports failure and
\* leaves every field of the Model as it was before the call.
C7_FailedLoadLeavesModelUnchanged ==
    /\ (last.op = "load" /\ last.items[1].kind \in {"missing", "corrupt"})
           => last.out = False
    /\ (last.op = "load" /\ last.out = False)
           => Obj(last.name) = last.pre

\* C8: save_model followed by load_model into an instance of the same variant
\* restores every field of the persisted bundle to the value the saved Model
\* had, so predict and predict_proba of the two agree on every instance.
C8_SaveLoadRoundTrip ==
    (last.op = "load" /\ last.out = True
        /\ last.items[1].saved.variant = Obj(last.name).variant)
        => LET loaded == Obj(last.name)
               saved == last.items[1].saved
           IN  /\ \A f \in {"model", "scaler", "label_encoders", "feature_names", "version",
                        "model_type", "is_trained"} : loaded[f] = saved[f]
               /\ \A x \in Instances :
                      /\ predict(loaded, x) = predict(saved, x)
                      /\ predict_proba(loaded, x) = predict_proba(saved, x)

\* a trained regressor restored into a freshly constructed classifier instance
C8_Witness ==
    /\ last.op = "load"
    /\ last.out = True
    /\ last.pre = NewModel("DecisionTree", "classifier")
    /\ spare.is_trained
    /\ spare.model_type = "regressor"
    /\ spare.model.fit # 0

(***************************************************************************)
(* Concurrent callers.  A call of MLEngine.retrain_model made on a worker   *)
(* thread runs train statement by statement, interleaved with the calls of *)
(* the other threads; the engine and the Models hold no lock.              *)
(***************************************************************************)
\* caller c enters retrain_model and runs it up to the call of model.train
RetrainBegin(c, name, d, rows, has_target, fail) ==
    /\ callers[c].pc = "idle"
    /\ LET prep == retrain_prepare(models, name, d, rows, has_target)
       IN  IF prep.out.kind = "raise"
           THEN /\ last' = Call("engine.retrain_model", name, prep.out, << d, rows >>,
                                << >>, prep.calls, Pre(name))
                /\ UNCHANGED callers
           ELSE /\ callers' = [callers EXCEPT ![c] =
                                  [pc |-> "training", name |-> name, d |-> prep.X,
                                   fail |-> fail, k |-> 1, calls |-> prep.calls,
                                   via |-> "engine.retrain_model"]]
                /\ UNCHANGED last
    /\ UNCHANGED << models, spare, store, health, shap_explainer, lime_explainer >>

\* caller c executes the next statement of train; the call ends with the last one
TrainStepOf(c) ==
    /\ callers[c].pc = "training"
    /\ LET me == callers[c]
           s == TrainStep(models[me.name], me.d, me.fail, me.k)
       IN  /\ models' = [models EXCEPT ![me.name] = s.m]
           /\ IF s.done
              THEN /\ callers' = [callers EXCEPT ![c] = IdleCaller]
                   /\ last' = LET r == retrain_result(me, s.res)
                              IN  Call(me.via, me.name, r.out, << me.d >>, r.items,
                                       r.calls, NoModel)
              ELSE /\ callers' = [callers EXCEPT ![c].k = me.k + 1]
                   /\ UNCHANGED last
    /\ UNCHANGED << spare, store, health, shap_explainer, lime_explainer >>

NextRetrain ==
    \/ \E c \in CallerIds, n \in RequestNames, d \in DataIds, rows \in 0..1,
          ht \in BOOLEAN, fail \in FailPoints : RetrainBegin(c, n, d, rows, ht, fail)
    \/ \E c \in CallerIds : TrainStepOf(c)

SpecRetrain == Init /\ [][NextRetrain]_vars

\* C6: for each model name at most one retrain is in flight at any time; a
\* second request is queued or rejected, so two retrains never interleave.
C6_SingleRetrainInFlight ==
    \A n \in DOMAIN models : 
        Cardinality({c \in CallerIds : callers[c].pc = "training"
                                         /\ callers[c].name = n}) <= 1

(***************************************************************************)
(* The registry after construction.                                        *)
(***************************************************************************)
\* C11: after MLEngine is constructed the registry holds a Model under each of
\* the four names decision_tree, random_forest, neural_network and qda, each
\* implementing train, predict, predict_proba and get_feature_importance.
C11_RegistryHoldsFourModels ==
    /\ DOMAIN models = ModelNames
    /\ \A n \in DOMAIN models : AbstractMethods \subseteq DefinedMethods(models[n].variant)

(***************************************************************************)
(* Training.                                                               *)
(***************************************************************************)
\* C12: Model.train never raises: a training that fails returns a failure
\* indicator carrying a message.
C12_TrainNeverRaises ==
    last.op = "train"
        => /\ last.out.kind # "raise"
           /\ last.out # TrainSuccess => (last.out.kind = "error" /\ last.out.msg # "")

\* C13: after a successful train(X, y) the trained flag is true, the
\* feature-name list is the ordered column list of X and the training
\* timestamp is set.
C13_SuccessfulTrainSetsMetadata ==
    (last.op = "train" /\ last.out = TrainSuccess)
        => /\ Obj(last.name).is_trained
           /\ Obj(last.name).feature_names = DataCols(last.inputs[1])
           /\ Obj(last.name).training_date # 0

(***************************************************************************)
(* Feature mappings given to a trained Model.                              *)
(***************************************************************************)
\* C14: for a trained Model, predict on a mapping with keys outside the
\* feature-name list gives the result of the mapping without those keys, and a
\* mapping lacking some feature names is scored with defaults instead of failing.
\* (aligned is the mapping holding exactly the Model's feature names, in order.)
C14_ExtraAndMissingKeysTolerated ==
    LET x == last.inputs[1]
        aligned == [x EXCEPT !.cols = last.pre.feature_names]
    IN  (last.op = "predict" /\ last.pre.is_trained
            /\ predict(last.pre, aligned).kind = "value")
            => /\ last.out.kind = "value"
               /\ Range(last.pre.feature_names) \subseteq Range(x.cols)
                      => last.out = predict(last.pre, aligned)

\* C15: get_feature_importance on an untrained Model returns the empty mapping
\* and does not raise.
C15_UntrainedImportanceIsEmpty ==
    (last.op = "get_feature_importance" /\ ~last.pre.is_trained)
        => last.out = Mapping(<< >>)

\* C16: validate_features returns true iff the feature-name list is empty or
\* every name in it is a key of the mapping (keys outside the list never make
\* it false), and the call changes no Model state.
C16_ValidateFeatures ==
    last.op = "validate_features"
        => /\ (last.out = True)
                  <=> \/ last.pre.feature_names = << >>
                      \/ \A n \in Range(last.pre.feature_names) :
                             n \in Range(last.inputs[1].cols)
           /\ last.out \in {True, False}
           /\ Obj(last.name) = last.pre

\* a trained Model accepts a mapping that has all its feature names and one more
C16_Witness ==
    /\ last.op = "validate_features"
    /\ last.out = True
    /\ last.pre.is_trained
    /\ last.pre.feature_names # << >>
    /\ Range(last.inputs[1].cols) \ Range(last.pre.feature_names) # {}

(***************************************************************************)
(* FeatureExtractor.extract_features on raw, loosely typed input.          *)
(*                                                                         *)
(* A raw value is a tagged record: t is its Python type ("absent" when the *)
(* key is not in the mapping), s its text, n / mo its number or its year   *)
(* and month.  A feature vector is a function from feature names to        *)
(* numbers; a step returns it (kind "value") or raises (kind "raise").     *)
(***************************************************************************)
Absent == [t |-> "absent", s |-> "", n |-> 0, mo |-> 0]
NoneV == [t |-> "none", s |-> "", n |-> 0, mo |-> 0]
Str(s) == [t |-> "str", s |-> s, n |-> 0, mo |-> 0]
Num(n) == [t |-> "num", s |-> "", n |-> n, mo |-> 0]
DateTimeV(y, m) == [t |-> "datetime", s |-> "", n |-> y, mo |-> m]

\* datetime.now()
Now == [year |-> 2026, month |-> 11]

\* FeatureExtractor._initialize_feature_mappings
feature_mappings ==
    [funding_stages |->
        ("Pre-Seed" :> 1) @@ ("Seed" :> 2) @@ ("Series A" :> 3) @@ ("Series B" :> 4)
        @@ ("Series C" :> 5) @@ ("Series D" :> 6) @@ ("Later Stage" :> 7) @@ ("IPO" :> 8),
     sectors |->
        ("AI/ML" :> 1) @@ ("FinTech" :> 2) @@ ("HealthTech" :> 3) @@ ("E-commerce" :> 4)
        @@ ("SaaS" :> 5) @@ ("Biotech" :> 6) @@ ("CleanTech" :> 7) @@ ("EdTech" :> 8)
        @@ ("Gaming" :> 9) @@ ("Hardware" :> 10) @@ ("Other" :> 0),
     competition_levels |-> ("low" :> 1) @@ ("medium" :> 2) @@ ("high" :> 3),
     business_models |->
        ("B2B" :> 1) @@ ("B2C" :> 2) @@ ("B2B2C" :> 3) @@ ("Marketplace" :> 4)
        @@ ("SaaS" :> 5) @@ ("Hardware" :> 6) @@ ("Subscription" :> 7)
        @@ ("Freemium" :> 8)]

Features(f) == [kind |-> "value", msg |-> "", features |-> f]
Raises(m) == [kind |-> "raise", msg |-> m, features |-> << >>]

\* data.get(key, default)
Get(data, key, default) == IF data[key].t = "absent" THEN default ELSE data[key]

\* Python truthiness of a raw value
Truthy(v) ==
    CASE v.t \in {"absent", "none"} -> FALSE
      [] v.t = "str" -> v.s # ""
      [] v.t = "num" -> v.n # 0
      [] OTHER -> TRUE

\* table.get(value, default) of a lookup table: hashing a list raises
Lookup(table, v, default) ==
    IF v.t = "list" THEN Raises("TypeError: unhashable type")
    ELSE IF v.t = "str" /\ v.s \in DOMAIN table THEN Features(table[v.s])
    ELSE Features(default)

\* FeatureExtractor._safe_float: ValueError and TypeError give 0.0, the
\* OverflowError of float(<huge int>) is not caught
_safe_float(v) ==
    CASE v.t = "num" -> Features(v.n)
      [] v.t = "huge" -> Raises("OverflowError")
      [] OTHER -> Features(0)

\* datetime.strptime(text, "%Y-%m-%d")
Strptime(text) ==
    CASE text = "2025-01-15" -> [ok |-> TRUE, year |-> 2025, month |-> 1]
      [] text = "2015-06-30" -> [ok |-> TRUE, year |-> 2015, month |-> 6]
      [] OTHER -> [ok |-> FALSE, year |-> 0, month |-> 0]

\* (datetime.now() - founded).days
DaysSince(y, m) == (Now.year - y) * 365 + (Now.month - m) * 30

\* FeatureExtractor._calculate_company_age, in whole years; every exception
\* inside gives 0.0
_calculate_company_age(v) ==
    IF ~Truthy(v) THEN 0
    ELSE IF v.t = "str"
         THEN IF Strptime(v.s).ok
              THEN Max(0, DaysSince(Strptime(v.s).year, Strptime(v.s).month) \div 365)
              ELSE 0
    ELSE IF v.t \in {"datetime", "date"} THEN Max(0, DaysSince(v.n, v.mo) \div 365)
    ELSE 0

\* the names of the tier lists that occur inside a geography text
TierNamesIn(text) ==
    CASE text = "London, UK" -> {"London"}
      [] text = "Toronto, Canada" -> {"Canada"}
      [] text = "New York, United States" -> {"New York", "United States"}
      [] OTHER -> {}

\* FeatureExtractor._get_geography_tier: `tier in geography` raises TypeError
\* on a value that is not a container
_get_geography_tier(v) ==
    LET top_tier == {"United States", "San Francisco", "New York", "Boston", "London",
                     "Singapore"}
        second_tier == {"Canada", "Germany", "France", "Israel", "Australia"}
    IN  IF v.t \in {"num", "none", "huge", "datetime", "date"}
        THEN Raises("TypeError: argument is not iterable")
        ELSE IF v.t = "str" /\ TierNamesIn(v.s) \cap top_tier # {} THEN Features(1)
        ELSE IF v.t = "str" /\ TierNamesIn(v.s) \cap second_tier # {} THEN Features(2)
        ELSE Features(3)

\* the first raising step of a list of steps, or the values of all of them
FirstRaise(steps) ==
    LET raising == {k \in DOMAIN steps : steps[k].kind = "raise"}
    IN  IF raising = {} THEN Features(<< >>)
        ELSE steps[CHOOSE k \in raising : \A j \in raising : k <= j]

\* FeatureExtractor._extract_financial_features
_extract_financial_features(data) ==
    LET revenue == _safe_float(Get(data, "revenue", Num(0)))
        stage == Lookup(feature_mappings.funding_stages,
                        Get(data, "funding_stage", Str("Other")), 0)
        err == FirstRaise(<< revenue, stage >>)
    IN  IF err.kind = "raise" THEN err
        ELSE Features(
               ("revenue" :> revenue.features) @@ ("revenue_growth" :> 0)
               @@ ("recurring_revenue_ratio" :> 0) @@ ("funding_amount" :> 0)
               @@ ("previous_funding" :> 0)
               @@ ("funding_stage_numeric" :> stage.features)
               @@ ("burn_rate" :> 0) @@ ("runway_months" :> 0)
               @@ ("unit_economics_score" :> 0))

\* FeatureExtractor._extract_company_features
_extract_company_features(data) ==
    LET sector == Lookup(feature_mappings.sectors, Get(data, "sector", Str("Other")), 0)
        bm == Lookup(feature_mappings.business_models,
                     Get(data, "business_model", Str("Other")), 0)
        tier == _get_geography_tier(Get(data, "geography", Str("Other")))
        err == FirstRaise(<< sector, bm, tier >>)
    IN  IF err.kind = "raise" THEN err
        ELSE Features(
               ("company_age" :> _calculate_company_age(data["founded_date"]))
               @@ ("sector_numeric" :> sector.features)
               @@ ("business_model_numeric" :> bm.features)
               @@ ("geography_tier" :> tier.features)
               @@ ("employee_count" :> 0) @@ ("employee_growth" :> 0))

\* FeatureExtractor._extract_market_features
_extract_market_features(data) ==
    LET level == Lookup(feature_mappings.competition_levels,
                        Get(data, "competition_level", Str("medium")), 2)
    IN  IF level.kind = "raise" THEN level
        ELSE Features(
               ("market_size" :> 0) @@ ("competition_level_numeric" :> level.features)
               @@ ("market_growth_rate" :> 0) @@ ("market_penetration" :> 0))

\* FeatureExtractor._extract_temporal_features
_extract_temporal_features(data) ==
    LET current == ("current_year" :> Now.year) @@ ("current_month" :> Now.month)
                   @@ ("current_quarter" :> ((Now.month - 1) \div 3) + 1)
        given == data["founded_date"]
        \* after the strptime attempt: a string becomes a datetime or None
        parsed == IF given.t = "str" /\ Truthy(given)
                  THEN IF Strptime(given.s).ok
                       THEN DateTimeV(Strptime(given.s).year, Strptime(given.s).month)
                       ELSE NoneV
                  ELSE given
    IN  IF ~Truthy(given) \/ ~Truthy(parsed) THEN Features(current)
        ELSE IF parsed.t = "datetime"
             THEN Features(current
                    @@ ("founded_year" :> parsed.n)
                    @@ ("founded_quarter" :> ((parsed.mo - 1) \div 3) + 1)
                    @@ ("is_recent_company" :>
                           IF DaysSince(parsed.n, parsed.mo) < 365 * 3 THEN 1 ELSE 0))
        ELSE IF parsed.t = "date" THEN Raises("TypeError: datetime - date")
        ELSE Raises("AttributeError: year")

\* FeatureExtractor._extract_team_features
_extract_team_features(data) ==
    Features(("founder_experience" :> 0) @@ ("team_size" :> 0)
             @@ ("technical_team_ratio" :> 0) @@ ("advisor_count" :> 0)
             @@ ("previous_exits" :> 0))

\* FeatureExtractor._extract_product_features
_extract_product_features(data) ==
    LET cac == _safe_float(Get(data, "customer_acquisition_cost", Num(0)))
        ltv == _safe_float(Get(data, "customer_lifetime_value", Num(0)))
        err == FirstRaise(<< cac, ltv >>)
    IN  IF err.kind = "raise" THEN err
        ELSE Features(
               ("product_readiness" :> 0) @@ ("customer_count" :> 0)
               @@ ("customer_acquisition_cost" :> cac.features)
               @@ ("customer_lifetime_value" :> ltv.features)
               @@ ("churn_rate" :> 0) @@ ("nps_score" :> 0)
               @@ ("ltv_cac_ratio" :>
                      IF cac.features > 0 THEN ltv.features \div cac.features ELSE 0))

\* FeatureExtractor._get_default_features
_get_default_features ==
    ("revenue" :> 0) @@ ("revenue_growth" :> 0) @@ ("funding_amount" :> 0)
    @@ ("company_age" :> 0) @@ ("sector_numeric" :> 0) @@ ("funding_stage_numeric" :> 0)
    @@ ("business_model_numeric" :> 0) @@ ("market_size" :> 0)
    @@ ("competition_level_numeric" :> 2) @@ ("employee_count" :> 0)
    @@ ("founder_experience" :> 0) @@ ("product_readiness" :> 0)
    @@ ("customer_count" :> 0) @@ ("ltv_cac_ratio" :> 0) @@ ("geography_tier" :> 3)

\* the six sub-extractions of extract_features, in the order they run
ExtractionSteps(data) ==
    << _extract_financial_features(data), _extract_company_features(data),
       _extract_market_features(data), _extract_temporal_features(data),
       _extract_team_features(data), _extract_product_features(data) >>

\* features = {} followed by the six features.update(...) calls
RECURSIVE UpdateAll(_, _)
UpdateAll(steps, k) ==
    IF k = 0 THEN << >> ELSE steps[k].features @@ UpdateAll(steps, k - 1)

\* an extraction that lets the exception of a sub-extraction through
FeatureExtractor_extract_features_NoCatch(data) ==
    LET steps == ExtractionSteps(data)
    IN  IF FirstRaise(steps).kind = "raise" THEN FirstRaise(steps)
        ELSE Features(UpdateAll(steps, Len(steps)))

\* FeatureExtractor.extract_features on a raw input: any exception of a
\* sub-extraction is caught and the default vector returned
FeatureExtractor_extract_features(data) ==
    LET steps == ExtractionSteps(data)
    IN  IF FirstRaise(steps).kind = "raise" THEN Features(_get_default_features)
        ELSE Features(UpdateAll(steps, Len(steps)))

\* the raw inputs extraction is run on
CategoryValues(known) == {Absent, Str(known), Str("Unlisted"), [t |-> "list", s |-> "",
      n |-> 0, mo |-> 0]}

RawInputs ==
    [funding_stage : CategoryValues("Seed"),
     sector : {Absent, Str("Unlisted")},
     business_model : {Absent, Str("Unlisted")},
     competition_level : CategoryValues("high"),
     geography : {Absent, Str("London, UK"), Str("Toronto, Canada"), Str("Mars"),
                  Num(7), NoneV},
     founded_date : {Absent, Str(""), Str("2025-01-15"), Str("soon"),
                     DateTimeV(2015, 6), [t |-> "date", s |-> "", n |-> 2015, mo |-> 6], Num(2020)},
     revenue : {Absent, Str("n/a"), [t |-> "huge", s |-> "", n |-> 0, mo |-> 0]},
     customer_acquisition_cost : {Absent, Num(2)},
     customer_lifetime_value : {Absent, Num(6)}]

\* the mapping without any key
EmptyInput == [k \in {"funding_stage", "sector", "business_model", "competition_level",
      "geography", "founded_date", "revenue", "customer_acquisition_cost",
      "customer_lifetime_value"} |-> Absent]

\* a caller runs extract_features(data)
ExtractFeatures(data) ==
    /\ last = Idle
    /\ LET r == FeatureExtractor_extract_features(data)
       IN  last' = Call("extract_features", "",
                        IF r.kind = "raise" THEN Raise(r.msg) ELSE Returned,
                        << data >>, << r.features >>, << >>, NoModel)
    /\ UNCHANGED << models, spare, store, health, callers, shap_explainer, lime_explainer >>

NextExtract ==
    \/ Return
    \/ last = Idle /\ \E data \in RawInputs : ExtractFeatures(data)

SpecExtract == Init /\ [][NextExtract]_vars

\* C17: a categorical input (funding stage, sector, competition level,
\* business model, geography) whose value is absent or not in its lookup table
\* is encoded as the default code 0, and the encoding never raises.
C17_UnknownCategoryEncodesZero ==
    LET data == last.inputs[1]
        code == last.items[1]
        Unlisted(v, table) == v.t = "absent" \/ (v.t = "str" /\ v.s \notin DOMAIN table)
    IN  last.op = "extract_features"
            => /\ last.out.kind # "raise"
               /\ Unlisted(data.funding_stage, feature_mappings.funding_stages)
                      => code["funding_stage_numeric"] = 0
               /\ Unlisted(data.sector, feature_mappings.sectors)
                      => code["sector_numeric"] = 0
               /\ Unlisted(data.business_model, feature_mappings.business_models)
                      => code["business_model_numeric"] = 0
               /\ Unlisted(data.competition_level, feature_mappings.competition_levels)
                      => code["competition_level_numeric"] = 0
               /\ (data.geography.t = "absent"
                      \/ (data.geography.t = "str" /\ TierNamesIn(data.geography.s) = {}))
                      => code["geography_tier"] = 0

\* C18: extract_features never raises; whenever one of its sub-extractions
\* fails it returns the default vector of _get_default_features.
C18_ExtractFeaturesNeverRaises ==
    last.op = "extract_features"
        => /\ last.out = Returned
           /\ (\E k \in 1..Len(ExtractionSteps(last.inputs[1])) :
                   ExtractionSteps(last.inputs[1])[k].kind = "raise")
                  => last.items[1] = _get_default_features

\* a geography that is a number makes the company step fail
C18_Witness ==
    /\ last.op = "extract_features"
    /\ last.inputs[1].geography = Num(7)
    /\ _extract_company_features(last.inputs[1]).kind = "raise"
    /\ last.out = Returned
    /\ last.items[1] = _get_default_features

\* C19: for the raw input in which every optional field is absent (the empty
\* mapping) extract_features returns exactly the default vector, keys and values.
C19_EmptyInputGivesDefaultVector ==
    (last.op = "extract_features" /\ last.inputs[1] = EmptyInput)
        => /\ last.out = Returned
           /\ last.items[1] = _get_default_features

\* C20: the set of feature names of the returned vector is the same for every
\* raw input (the one returned for the empty mapping), whether or not
\* founded_date is present and whichever path was taken.
C20_FixedFeatureNames ==
    last.op = "extract_features"
        => DOMAIN last.items[1]
               = DOMAIN FeatureExtractor_extract_features(EmptyInput).features

(***************************************************************************)
(* Explanation requests to the engine.                                     *)
(***************************************************************************)
\* C21: explain_prediction fails with the 'not found' error for an unregistered
\* name (checked first) and, for a registered model, with the unknown-method
\* error when the method is neither 'shap' nor 'lime' in any letter case; for
\* an unknown method no explainer is invoked.
C21_ExplainUnknownModelOrMethod ==
    last.op = "engine.explain_prediction"
        => /\ ~Registered(last.name)
                  => (last.out = NotFound /\ last.calls = << >>)
           /\ (Registered(last.name) /\ Lower(last.inputs[2]) \notin {"shap", "lime"})
                  => /\ last.out = Raise("Unknown explanation method")
                     /\ Range(last.calls) \cap {"shap.explain", "lime.explain"} = {}

\* C23: explain_prediction on a registered model with method 'shap' or 'lime'
\* never raises because of the explanation backend: it returns a result.
C23_ExplainNeverRaisesForBackend ==
    (last.op = "engine.explain_prediction" /\ Registered(last.name)
        /\ Lower(last.inputs[2]) \in {"shap", "lime"})
        => last.out.kind # "raise"

\* C25: the confidence a Random Forest Model reports for an instance is the
\* maximum class probability, the probability of the class predict returns.
C25_ForestConfidenceIsMaxProbability ==
    (last.op = "predict_proba" /\ last.pre.variant = "RandomForest"
        /\ last.out.kind = "value")
        => LET p == ClassOneProba(last.pre.model, last.pre.scaler, last.inputs[1])
           IN  /\ last.out.conf = Max(p, 100 - p)
               /\ last.out.conf
                      = IF predict(last.pre, last.inputs[1]).label = 1 THEN p ELSE 100 - p

\* C29: in every reachable state of a Model, if the trained flag is true then
\* the feature-name list is the column list of the data the current estimator
\* and scaler were fitted on; a train call that fails leaves the feature-name
\* list, the scaler and the trained flag as they were.
C29_TrainedStateIsConsistent ==
    /\ \A n \in DOMAIN models :
           models[n].is_trained
               => /\ models[n].model.fit # 0
                  /\ models[n].feature_names = DataCols(models[n].model.fit)
                  /\ models[n].variant = "DecisionTree"
                         => models[n].scaler.fit = models[n].model.fit
    /\ (last.op = "train" /\ last.out # TrainSuccess)
           => /\ Obj(last.name).feature_names = last.pre.feature_names
              /\ Obj(last.name).scaler = last.pre.scaler
              /\ Obj(last.name).is_trained = last.pre.is_trained

\* C30: health_check reports a model as 'healthy' only if the model is trained
\* and its predict on the dummy features produced a prediction.
C30_HealthyOnlyIfTrained ==
    last.op = "engine.health_check"
        => \A n \in DOMAIN models :
               health.model_status[n] = "healthy"
                   => /\ models[n].is_trained
                      /\ predict(models[n], get_dummy_features(models[n])).kind = "value"

C26_UnfittedScalerIsAnError ==
    (last.op \in {"predict", "predict_proba"}
        /\ last.pre.scaler.cls = "StandardScaler" /\ last.pre.scaler.fit = 0)
        => last.out.kind \in {"raise", "error"}

(***************************************************************************)
(* The explainers: SHAPExplainer and LIMEExplainer.  An explainer object   *)
(* is its available flag and its explainers dictionary; what the shap and  *)
(* lime packages compute is the environment's, and their failures are an   *)
(* input of each operation.                                                *)
(***************************************************************************)
\* the model_name arguments; "default" is the default of LIME's create_explainer
ExplainerNames == {"decision_tree", "default"}

\* the feature_names lists handed to the explainers
FeatureNameLists ==
    { << "company_age", "team_size" >>,
      << "revenue", "revenue_growth", "company_age" >> }

Has(e, model_name) == model_name \in DOMAIN e.explainers

Explanation(contribs) ==
    [kind |-> "explanation", msg |-> "", feature_contributions |-> contribs]
Dict(d) == [kind |-> "dict", msg |-> "", items |-> d]

\* f"No explainer found for {model_name}"
NoExplainerFoundFor(model_name) ==
    IF model_name = "decision_tree" THEN "No explainer found for decision_tree"
    ELSE "No explainer found for default"

_get_explainer_type(cls) ==
    IF cls \in {"RandomForestClassifier", "DecisionTreeClassifier"} THEN "tree"
    ELSE IF cls \in {"LogisticRegression"} THEN "linear"
    ELSE "kernel"

\* SHAPExplainer.create_explainer: the explainer is stored once it has been
\* constructed; fails says that the construction raises
SHAP_create_explainer(e, cls, model_name, fails) ==
    IF ~e.available THEN [obj |-> e, out |-> False]
    ELSE IF fails THEN [obj |-> e, out |-> False]
    ELSE [obj |-> [e EXCEPT !.explainers =
                      (model_name :> [type |-> _get_explainer_type(cls),
                                      feature_names |-> << >>,
                                      class_names |-> << >>]) @@ @],
          out |-> True]

\* a create_explainer that registers the name before it constructs the explainer
LIME_create_explainer_StoresFirst(e, feature_names, class_names, model_name, fails) ==
    IF ~e.available THEN [obj |-> e, out |-> False]
    ELSE [obj |-> [e EXCEPT !.explainers =
                      (model_name :> [type |-> "lime",
                                      feature_names |-> feature_names,
                                      class_names |-> class_names]) @@ @],
          out |-> IF fails THEN False ELSE True]

LIME_create_explainer(e, feature_names, class_names, model_name, fails) ==
    IF ~e.available THEN [obj |-> e, out |-> False]
    ELSE IF fails THEN [obj |-> e, out |-> False]
    ELSE [obj |-> [e EXCEPT !.explainers =
                      (model_name :> [type |-> "lime",
                                      feature_names |-> feature_names,
                                      class_names |-> class_names]) @@ @],
          out |-> True]

LIME_remove_explainer(e, model_name) ==
    IF Has(e, model_name)
    THEN [obj |-> [e EXCEPT !.explainers =
                      [n \in DOMAIN @ \ {model_name} |-> @[n]]],
          out |-> True]
    ELSE [obj |-> e, out |-> False]

\* the contents of a SHAP explanation are the package's; with feature names the
\* result carries feature_contributions keyed by them
SHAP_explain_prediction(e, model_name, feature_names, fails) ==
    IF ~e.available THEN ErrorPayload("SHAP not available")
    ELSE IF ~Has(e, model_name) THEN ErrorPayload(NoExplainerFoundFor(model_name))
    ELSE IF fails THEN ErrorPayload("SHAP explanation failed")
    ELSE Explanation([f \in Range(feature_names) |-> 0])

\* a mean is kept exactly, as the sum (num) and the number (den) of the values
\* averaged; without feature names the keys are the f"feature_{i}" of a
\* two-column features array
SHAP_get_feature_importance(e, model_name, feature_names, fails) ==
    IF ~e.available THEN Dict(<< >>)
    ELSE IF ~Has(e, model_name) THEN Dict(<< >>)
    ELSE IF fails THEN Dict(<< >>)
    ELSE IF feature_names # << >>
         THEN Dict([f \in Range(feature_names) |-> [num |-> 1, den |-> 1]])
         ELSE Dict([f \in {"feature_0", "feature_1"} |-> [num |-> 1, den |-> 1]])

SHAP_create_summary_plot_data(e, model_name, feature_names, fails) ==
    IF ~e.available THEN ErrorPayload("SHAP not available")
    ELSE IF ~Has(e, model_name) THEN ErrorPayload(NoExplainerFoundFor(model_name))
    ELSE IF fails THEN ErrorPayload("Summary plot data creation failed")
    ELSE Mapping(feature_names)

\* the instances handed to LIME, and explanation.as_list() of each: the
\* discretised features LIME picked, by decreasing |weight|; k is the column
\* of the feature, form the shape of its description ("f <= v", "f > v",
\* "v < f <= w")
LimeInstances == {"a", "b", "c"}

\* explainer.explain_instance(...).as_list(): the descriptions name the
\* explainer's own feature_names; a column the explainer does not have cannot
\* be picked
as_list(instance, feature_names) ==
    LET explanation ==
            CASE instance = "a" -> << [k |-> 2, form |-> "le", c |-> -4] >>
              [] instance = "b" -> << [k |-> 2, form |-> "gt", c |-> 6],
                                      [k |-> 1, form |-> "between", c |-> 2] >>
              [] OTHER          -> << [k |-> 3, form |-> "le", c |-> -2],
                                      [k |-> 1, form |-> "gt", c |-> 1] >>
        picked == SelectSeq(explanation, LAMBDA t : t.k <= Len(feature_names))
    IN  [i \in DOMAIN picked |->
            [desc |-> [feature |-> feature_names[picked[i].k],
                       form |-> picked[i].form],
             contribution |-> picked[i].c]]

\* name in feature_desc: a name occurs in a description exactly when it occurs
\* in the feature name the description holds (the rest is numbers and signs),
\* that is when it is that name or a proper substring of it; the fallback is
\* feature_desc.split()[0]
_extract_feature_name(desc, feature_names) ==
    LET ProperSubstrings == { << "revenue", "revenue_growth" >> }
        hits == { i \in DOMAIN feature_names :
                    \/ feature_names[i] = desc.feature
                    \/ << feature_names[i], desc.feature >> \in ProperSubstrings }
    IN  IF hits # {}
        THEN feature_names[CHOOSE i \in hits : \A j \in hits : i <= j]
        ELSE IF desc.form = "between" THEN "0.25" ELSE desc.feature

\* the loop feature_contributions[feature_name] = contribution over the first k
\* entries of explanation_list: a later entry overwrites an earlier one
RECURSIVE feature_contributions(_, _, _)
feature_contributions(explanation_list, feature_names, k) ==
    IF k = 0 THEN << >>
    ELSE (_extract_feature_name(explanation_list[k].desc, feature_names)
              :> explanation_list[k].contribution)
         @@ feature_contributions(explanation_list, feature_names, k - 1)

\* an explain_prediction whose registry lookup is outside the try block
LIME_explain_prediction_Unguarded(e, model_name, instance, fails) ==
    IF ~e.available THEN ErrorPayload("LIME not available")
    ELSE IF ~Has(e, model_name) THEN Raise("KeyError")
    ELSE IF fails THEN ErrorPayload("LIME explanation failed")
    ELSE LET names == e.explainers[model_name].feature_names
             list == as_list(instance, names)
         IN  Explanation(feature_contributions(list, names, Len(list)))

LIME_explain_prediction(e, model_name, instance, fails) ==
    IF ~e.available THEN ErrorPayload("LIME not available")
    ELSE IF ~Has(e, model_name) THEN ErrorPayload(NoExplainerFoundFor(model_name))
    ELSE IF fails THEN ErrorPayload("LIME explanation failed")
    ELSE LET names == e.explainers[model_name].feature_names
             list == as_list(instance, names)
         IN  Explanation(feature_contributions(list, names, Len(list)))

LIME_explain_prediction_html(e, model_name, fails) ==
    LET Html(text) == [kind |-> "html", msg |-> text]
    IN  IF ~e.available THEN Html("<p>LIME not available</p>")
        ELSE IF ~Has(e, model_name) THEN Html("<p>No explainer found</p>")
        ELSE IF fails THEN Html("<p>Error generating explanation</p>")
        ELSE Html("explanation.as_html()")

\* the most instances get_feature_importance explains
MaxExplained == 20

\* the subsets of S that have d elements
RECURSIVE SubsetsOfSize(_, _)
SubsetsOfSize(S, d) ==
    IF d = 0 THEN { {} }
    ELSE UNION { { T \cup {x} : T \in SubsetsOfSize(S \ {x}, d - 1) } : x \in S }

\* np.random.choice(len(instances), 20, replace=False): the index sets it can
\* return, as the complements of the sets of indices left out
SampleChoices(n) ==
    IF n > MaxExplained
    THEN { (1..n) \ D : D \in SubsetsOfSize(1..n, n - MaxExplained) }
    ELSE { 1..n }

RECURSIVE SumOver(_, _)
SumOver(v, S) ==
    IF S = {} THEN 0
    ELSE LET i == CHOOSE j \in S : TRUE IN v[i] + SumOver(v, S \ {i})

\* sample is the set of indices np.random.choice returned (all of them when
\* there are at most 20 instances)
LIME_get_feature_importance(e, model_name, instances, sample, fails) ==
    IF ~e.available THEN Dict(<< >>)
    ELSE IF ~Has(e, model_name) THEN Dict(<< >>)
    ELSE LET feature_names == e.explainers[model_name].feature_names
             result(i) == LIME_explain_prediction(e, model_name, instances[i], fails)
             appended(f) ==
                 { i \in sample : /\ result(i).kind = "explanation"
                                  /\ f \in DOMAIN result(i).feature_contributions }
             Abs(n) == IF n < 0 THEN -n ELSE n
             abs(f) == [i \in appended(f) |-> Abs(result(i).feature_contributions[f])]
         IN  Dict([f \in Range(feature_names) |->
                     IF appended(f) # {}
                     THEN [num |-> SumOver(abs(f), appended(f)),
                           den |-> Cardinality(appended(f))]
                     ELSE [num |-> 0, den |-> 1]])

\* the instances arrays: the short ones, and one longer than the sample
InstanceArrays ==
    UNION { [1..n -> LimeInstances] : n \in 0..MaxBatch }
        \cup { [i \in 1..(MaxExplained + 1) |-> IF i = 1 THEN "b" ELSE "a"] }

ShapCreateExplainer(cls, model_name, fails) ==
    /\ last = Idle
    /\ LET r == SHAP_create_explainer(shap_explainer, cls, model_name, fails)
       IN  /\ shap_explainer' = r.obj
           /\ last' = Call("shap.create_explainer", model_name, r.out,
                           << cls, fails >>, << >>, << >>, shap_explainer)
    /\ UNCHANGED << models, spare, store, health, callers, lime_explainer >>

LimeCreateExplainer(feature_names, class_names, model_name, fails) ==
    /\ last = Idle
    /\ LET r == LIME_create_explainer(lime_explainer, feature_names, class_names,
                                      model_name, fails)
       IN  /\ lime_explainer' = r.obj
           /\ last' = Call("lime.create_explainer", model_name, r.out,
                           << feature_names, fails >>, << >>, << >>, lime_explainer)
    /\ UNCHANGED << models, spare, store, health, callers, shap_explainer >>

LimeRemoveExplainer(model_name) ==
    /\ last = Idle
    /\ LET r == LIME_remove_explainer(lime_explainer, model_name)
       IN  /\ lime_explainer' = r.obj
           /\ last' = Call("lime.remove_explainer", model_name, r.out,
                           << >>, << >>, << >>, lime_explainer)
    /\ UNCHANGED << models, spare, store, health, callers, shap_explainer >>

ShapExplainPrediction(model_name, feature_names, fails) ==
    /\ last = Idle
    /\ last' = Call("shap.explain_prediction", model_name,
                    SHAP_explain_prediction(shap_explainer, model_name,
                                            feature_names, fails),
                    << feature_names, fails >>, << >>, << >>, shap_explainer)
    /\ UNCHANGED << models, spare, store, health, callers, shap_explainer,
                    lime_explainer >>

ShapGetFeatureImportance(model_name, feature_names, fails) ==
    /\ last = Idle
    /\ last' = Call("shap.get_feature_importance", model_name,
                    SHAP_get_feature_importance(shap_explainer, model_name,
                                                feature_names, fails),
                    << feature_names, fails >>, << >>, << >>, shap_explainer)
    /\ UNCHANGED << models, spare, store, health, callers, shap_explainer,
                    lime_explainer >>

ShapCreateSummaryPlotData(model_name, feature_names, fails) ==
    /\ last = Idle
    /\ last' = Call("shap.create_summary_plot_data", model_name,
                    SHAP_create_summary_plot_data(shap_explainer, model_name,
                                                  feature_names, fails),
                    << feature_names, fails >>, << >>, << >>, shap_explainer)
    /\ UNCHANGED << models, spare, store, health, callers, shap_explainer,
                    lime_explainer >>

LimeExplainPrediction(model_name, instance, fails) ==
    /\ last = Idle
    /\ last' = Call("lime.explain_prediction", model_name,
                    LIME_explain_prediction(lime_explainer, model_name,
                                            instance, fails),
                    << instance, fails >>, << >>, << >>, lime_explainer)
    /\ UNCHANGED << models, spare, store, health, callers, shap_explainer,
                    lime_explainer >>

LimeExplainPredictionHtml(model_name, fails) ==
    /\ last = Idle
    /\ last' = Call("lime.explain_prediction_html", model_name,
                    LIME_explain_prediction_html(lime_explainer, model_name, fails),
                    << fails >>, << >>, << >>, lime_explainer)
    /\ UNCHANGED << models, spare, store, health, callers, shap_explainer,
                    lime_explainer >>

\* items holds the instances, calls the indices that were explained (as the
\* domain of a function)
LimeGetFeatureImportance(model_name, instances, sample, fails) ==
    /\ last = Idle
    /\ last' = Call("lime.get_feature_importance", model_name,
                    LIME_get_feature_importance(lime_explainer, model_name,
                                                instances, sample, fails),
                    << fails >>, instances, [i \in sample |-> i], lime_explainer)
    /\ UNCHANGED << models, spare, store, health, callers, shap_explainer,
                    lime_explainer >>

NextExplain ==
    \/ Return
    \/ \E n \in ExplainerNames, b \in BOOLEAN :
          \/ \E cls \in {"DecisionTreeClassifier", "LogisticRegression",
                          "MLPClassifier"} :
                ShapCreateExplainer(cls, n, b)
          \/ \E fn \in FeatureNameLists, cn \in { << >>, << "reject", "approve" >> } :
                LimeCreateExplainer(fn, cn, n, b)
          \/ LimeRemoveExplainer(n)
          \/ \E fn \in FeatureNameLists \cup { << >> } :
                \/ ShapExplainPrediction(n, fn, b)
                \/ ShapGetFeatureImportance(n, fn, b)
                \/ ShapCreateSummaryPlotData(n, fn, b)
          \/ \E x \in LimeInstances : LimeExplainPrediction(n, x, b)
          \/ LimeExplainPredictionHtml(n, b)
          \/ \E xs \in InstanceArrays :
                \E sample \in SampleChoices(Len(xs)) :
                    LimeGetFeatureImportance(n, xs, sample, b)

\* the engine's process may or may not have the shap and lime packages
SpecExplain ==
    /\ \E sa \in BOOLEAN, la \in BOOLEAN : Constructed(sa, la)
    /\ [][NextExplain]_vars

\* C22 (as amended): when the backend is unavailable or the name has no
\* explainer, explain_prediction, get_feature_importance,
\* create_summary_plot_data and explain_prediction_html return an explicit
\* error or an empty value and do not raise; when the backend is available,
\* explain_prediction on a name without an explainer returns the 'No explainer
\* found' error value.
C22_ExplainerOperationsFailExplicitly ==
    LET explain == {"shap.explain_prediction", "lime.explain_prediction"}
        ops == explain \cup {"shap.get_feature_importance",
                             "shap.create_summary_plot_data",
                             "lime.get_feature_importance",
                             "lime.explain_prediction_html"}
    IN  /\ (last.op \in ops
               /\ (~last.pre.available \/ ~Has(last.pre, last.name)))
            => /\ last.out.kind # "raise"
               /\ \/ last.out.kind = "error" /\ last.out.msg # ""
                  \/ last.out = Dict(<< >>)
                  \/ last.out.kind = "html"
                        /\ last.out.msg \in {"<p>LIME not available</p>",
                                             "<p>No explainer found</p>"}
        /\ (last.op \in explain /\ last.pre.available
               /\ ~Has(last.pre, last.name))
            => last.out = ErrorPayload(NoExplainerFoundFor(last.name))

\* LIME is installed and holds an explainer, and explain_prediction was asked
\* about another name
C22_Witness ==
    /\ last.op = "lime.explain_prediction"
    /\ last.pre.available
    /\ last.pre.explainers # << >>
    /\ ~Has(last.pre, last.name)
    /\ last.out.kind = "error"

\* C22 as stated: explain_prediction on a name for which no explainer was
\* created returns the 'No explainer found' error value, whether or not the
\* backend is available.
C22_NoExplainerFoundWheneverNoneCreated ==
    (last.op \in {"shap.explain_prediction", "lime.explain_prediction"}
        /\ ~Has(last.pre, last.name))
        => last.out = ErrorPayload(NoExplainerFoundFor(last.name))

\* C27: create_explainer returns false and leaves the explainers unchanged when
\* the backend is unavailable or construction fails, and returns true only
\* with an explainer stored under the name; after each call a name has an
\* explainer exactly when the call created it, or it had one and the call was
\* not its removal, which is the step of "its most recent successful create has
\* not been followed by a remove".
C27_RegistryFollowsCreateAndRemove ==
    LET creates == {"shap.create_explainer", "lime.create_explainer"}
        now == IF last.op \in {"shap.create_explainer"}
               THEN shap_explainer ELSE lime_explainer
    IN  (last.op \in creates \cup {"lime.remove_explainer"})
        => /\ last.out \in {True, False}
           /\ (last.op \in creates
                  /\ (~last.pre.available \/ last.inputs[2]))
               => (last.out = False /\ now = last.pre)
           /\ (last.op \in creates /\ last.out = False) => now = last.pre
           /\ (last.op \in creates /\ last.out = True) => Has(now, last.name)
           /\ \A n \in ExplainerNames :
                 Has(now, n) <=>
                    IF last.op \in creates /\ n = last.name /\ last.out = True
                    THEN TRUE
                    ELSE IF last.op = "lime.remove_explainer" /\ n = last.name
                    THEN FALSE
                    ELSE Has(last.pre, n)
           /\ \A n \in ExplainerNames \ {last.name} :
                 Has(last.pre, n) => now.explainers[n] = last.pre.explainers[n]

\* the construction of a LIME explainer failed for a name that already had one
C27_Witness ==
    /\ last.op = "lime.create_explainer"
    /\ last.inputs[2]
    /\ last.pre.available
    /\ Has(last.pre, last.name)
    /\ last.pre.explainers[last.name].feature_names # last.inputs[1]
    /\ last.out = False

\* C28: LIMEExplainer.get_feature_importance explains at most 20 of the given
\* instances, each at most once, and returns a mapping whose keys are exactly
\* the explainer's feature names, each value being the mean of |contribution|
\* over the explained instances whose explanation holds that feature, and 0 for
\* a feature no explanation holds.
C28_ImportanceIsMeanAbsContribution ==
    (last.op = "lime.get_feature_importance"
        /\ last.pre.available /\ Has(last.pre, last.name))
    => LET names == last.pre.explainers[last.name].feature_names
           instances == last.items
           explained == DOMAIN last.calls
           holding(i, f) ==
               { t \in Range(as_list(instances[i], names)) : t.desc.feature = f }
           with(f) == { i \in explained : ~last.inputs[1] /\ holding(i, f) # {} }
           Abs(n) == IF n < 0 THEN -n ELSE n
           abs(f) == [i \in with(f) |->
                        Abs((CHOOSE t \in holding(i, f) : TRUE).contribution)]
           mean(f) == IF with(f) = {} THEN [num |-> 0, den |-> 1]
                      ELSE [num |-> SumOver(abs(f), with(f)),
                            den |-> Cardinality(with(f))]
       IN  /\ explained \subseteq DOMAIN instances
           /\ Cardinality(explained) <= MaxExplained
           /\ last.out.kind = "dict"
           /\ DOMAIN last.out.items = Range(names)
           /\ \A f \in Range(names) :
                 last.out.items[f].num * mean(f).den
                     = mean(f).num * last.out.items[f].den

====
